---- MODULE Spec2Model ----
(***************************************************************************)
(* A model of the two job runners of the ink repository:                   *)
(*   - the vaspjobs commands of src/ink/vasp/jobs.py (class Job: relax,    *)
(*     static, dos, band, and Job.submit with its qsub.pid bookkeeping);   *)
(*   - the YAML task runner of main.py.                                    *)
(* One behaviour follows one of the two programs (variable prog) through   *)
(* a bounded number of command-line runs.  External tools (qsub, qdel, the *)
(* potcar/kpoints shell commands, the confirmation prompt) are inputs:     *)
(* their outcomes are drawn nondeterministically at the step that calls    *)
(* them.                                                                   *)
(***************************************************************************)
EXTENDS Integers, Sequences, FiniteSets, TLC

VARIABLES
    prog,        \* which program the behaviour follows: "vaspjobs" or "main"
    \* ---- file system and scheduler (shared by the runs of a behaviour)
    baseCfg,     \* vasp_config.yaml in the module directory (a YAML document or NoFile)
    cwdCfg,      \* vasp_config.yaml in the directory the command is launched from
    pidFile,     \* task directory -> the qsub.pid file in it
    jobs,        \* jobs[i] = the directory job i was submitted from (scheduler's record)
    active,      \* ids of the jobs submitted and not cancelled
    \* ---- one vaspjobs run (a Job instance and the position in its command)
    runs,        \* number of command-line runs started so far
    jpc,         \* position of the running command
    jcmd,        \* the command: relax, static, dos, band
    jyes,        \* the --yes/-y flag
    config,      \* self.config: the merged configuration
    work_dir,    \* self.work_dir
    poscar_path, \* the resolved POSCAR source of the command
    stdout,      \* what qsub printed (result.stdout.strip()), as a token sequence
    jerr,        \* the exception that ended the run, with the position it was raised at
    \* ---- history of the run, kept for the properties
    written,     \* files written or copied by this run: <<directory, name>>
    prompted,    \* the confirmation prompt of this run: "none" (not shown), "yes", "no"
    strace,      \* scheduler calls and qsub.pid writes of this run's Job.submit, in order
    pid0,        \* qsub.pid as Job.submit found it
    loaded,      \* the two config files as Job.__init__ read them
    qdelFailed,  \* ids whose qdel did not succeed
    unrecorded,  \* ids of jobs whose id qsub did not print
    lastResolve, \* the latest _resolve_path call of this run: key, argument, result
    scriptText,  \* the text this run wrote to jobscript.sh
    grid,        \* the mesh this run gave to Kpoints.gamma_automatic
    \* ---- one run of the main.py task runner
    mcfg,        \* the --config file: NoFile or the YAML document in it
    onPath,      \* the executables shutil.which finds
    margs,       \* the command line: tasks, yes, from_label
    mpc,         \* position of the runner: start, a step of _process_task, done, failed
    vaspkit_cmd, \* the checked vaspkit executable name
    task_order,  \* the tasks to process, in order
    ti,          \* index in task_order of the task being processed
    mfiles,      \* files in the task directories: <<task, name>>
    mdirs,       \* task directories created by this run
    mwritten,    \* files written by this run (copies, INCAR, jobscript.sh, command output)
    mlog,        \* the steps executed by this run, in order
    merr,        \* the exception that ended the run and the step that raised it
    maborted,    \* AbortTasks was raised and caught
    mvisited,    \* the tasks _process_task was called for, in order
    \* ---- one run of write_control (ShengBTE/control.py)
    cargs,       \* its command line: poscar, is_born, outcar
    cpc,         \* "start", "done" or "failed"
    cerr,        \* the exception that ended it
    cwritten     \* the files it wrote

jobVars == <<baseCfg, cwdCfg, pidFile, jobs, active, runs, jpc, jcmd, jyes, config,
             work_dir, poscar_path, stdout, jerr, written, prompted, strace, pid0,
             loaded, qdelFailed, unrecorded, lastResolve, scriptText, grid>>

inputVars == <<lastResolve, scriptText, grid>>

ctlVars == <<cargs, cpc, cerr, cwritten>>

mainVars == <<mcfg, onPath, margs, mpc, vaspkit_cmd, task_order, ti, mfiles, mdirs,
              mwritten, mlog, merr, maborted, mvisited>>

vars == <<prog, jobVars, mainVars, ctlVars>>

----------------------------------------------------------------------------
(* Bounds *)

MaxRuns == 3

MaxTasks == 2

----------------------------------------------------------------------------
(* Python / YAML values.  Every value carries its type, so that isinstance  *)
(* tests and `is None` are what decides the branches, as in the code.       *)

None == [t |-> "none", v |-> ""]
Str(s) == [t |-> "str", v |-> s]
PathV(s) == [t |-> "path", v |-> s]
Num(n) == [t |-> "num", v |-> n]
Map(f) == [t |-> "map", v |-> f]
List(s) == [t |-> "list", v |-> s]
SeqDoc == [t |-> "list", v |-> <<"a">>]
NoFile == [t |-> "absent", v |-> ""]
EmptyDict == [k \in {} |-> None]

\* bool(x)
Truthy(x) ==
    CASE x.t = "none" -> FALSE
      [] x.t = "str" -> x.v # ""
      [] x.t = "num" -> x.v # 0
      [] x.t = "map" -> DOMAIN x.v # {}
      [] OTHER -> TRUE

\* x or {}
OrEmptyDict(x) == IF Truthy(x) THEN x ELSE Map(EmptyDict)

\* d.get(k)
Get(d, k) == IF k \in DOMAIN d THEN d[k] ELSE None

\* d.update(e): every key of e is set in d, in e's iteration order
RECURSIVE UpdateKeys(_, _, _)
UpdateKeys(d, e, ks) ==
    IF ks = {} THEN d
    ELSE LET k == CHOOSE x \in ks : TRUE
             d1 == [x \in DOMAIN d \cup {k} |-> IF x = k THEN e[k] ELSE d[x]]
         IN UpdateKeys(d1, e, ks \ {k})

\* a variant of Update in which the keys already set are kept
UpdateFirstWins(d, e) ==
    [x \in DOMAIN d \cup DOMAIN e |-> IF x \in DOMAIN d THEN d[x] ELSE e[x]]

Update(d, e) == UpdateKeys(d, e, DOMAIN e)

----------------------------------------------------------------------------
(* The files the commands can be pointed at, relative to the working        *)
(* directory, and the candidate contents of the two vasp_config.yaml files. *)

ExistingFiles == {"POSCAR.in", "INCAR.in", "POTCAR.in", "KPOINTS.in", "job.sh", "WAVECAR.in"}

Cmds == {"relax", "static", "dos", "band"}

\* a variant of InputKeys in which INCAR is handled before POSCAR
InputKeysIncarFirst == <<"incar", "poscar", "potcar", "kpoints", "jobscript">>

InputKeys == <<"poscar", "incar", "potcar", "kpoints", "jobscript">>

FullSection ==
    Map([poscar |-> Str("POSCAR.in"),
         incar |-> Map([ENCUT |-> Num(520)]),
         potcar |-> Str("POTCAR.in"),
         kpoints |-> Num(3),
         jobscript |-> Str("job.sh"),
         cp |-> Map("WAVECAR.in" :> Str("WAVECAR"))])

BaseDocs ==
    { NoFile,
      Map([global |-> Map(EmptyDict),
           relax |-> FullSection,
           dos |-> FullSection,
           band |-> Map([poscar |-> Str("nofile")])]) }

CwdDocs ==
    { NoFile,
      None,
      SeqDoc,
      Map([global |-> Map([work_dir |-> Str("calc")]),
           relax |-> Map([poscar |-> Str("nofile"),
                          cp |-> Map(("WAVECAR.in" :> Str("WAVECAR")) @@
                                     ("gone.in" :> Str("GONE")))]),
           static |-> FullSection]) }

WorkDirs == {".", "calc"}

TaskDirs == { w \o "/" \o c : w \in WorkDirs, c \in Cmds }

----------------------------------------------------------------------------
(* Job.__init__ *)

\* one `if path.is_file(): data = yaml.load(f) or {}; if isinstance(data, dict):
\* config.update(data)` block
MergeFile(cfg, file) ==
    IF file.t = "absent" THEN cfg
    ELSE LET data == OrEmptyDict(file)
         IN IF data.t = "map" THEN Update(cfg, data.v) ELSE cfg

MergedConfig(base, cwd) == MergeFile(MergeFile(EmptyDict, base), cwd)

\* self.config.get("global").get("work_dir"), then Path.cwd() or Path(work_dir_cfg).
\* The result is the working directory, or the exception raised.
ResolveWorkDir(cfg) ==
    LET g == Get(cfg, "global")
    IN IF g.t # "map" THEN [err |-> "AttributeError", dir |-> "."]
       ELSE LET w == Get(g.v, "work_dir")
            IN IF w.t = "none" THEN [err |-> "", dir |-> "."]
               ELSE IF w.t \in {"str", "path"} THEN [err |-> "", dir |-> w.v]
               ELSE [err |-> "TypeError", dir |-> "."]

\* the first statement of each command after cwd.mkdir: relax and static copy first
FirstStep(cmd) == IF cmd \in {"relax", "static"} THEN "cp1" ELSE InputKeys[1]

NoPid == [exists |-> FALSE, text |-> <<>>]

NoErr == [name |-> "", at |-> ""]

NoResolve == [key |-> "", arg |-> None, val |-> None]

\* create_lazy_command.wrapper: instantiate Job (Job.__init__, which ends with
\* _write_merged_config_to_cwd), then enter the command.
Invoke(cmd, yes) ==
    /\ prog = "vaspjobs"
    /\ jpc \in {"idle", "done", "failed", "aborted"}
    /\ runs < MaxRuns
    /\ runs' = runs + 1
    /\ jcmd' = cmd
    /\ jyes' = yes
    /\ loaded' = <<baseCfg, cwdCfg>>
    /\ prompted' = "none"
    /\ strace' = <<>>
    /\ pid0' = NoPid
    /\ poscar_path' = None
    /\ stdout' = <<>>
    /\ LET merged == MergedConfig(baseCfg, cwdCfg)
           wd == ResolveWorkDir(merged)
       IN /\ config' = merged
          /\ work_dir' = wd.dir
          /\ IF wd.err # ""
             THEN /\ jpc' = "failed"
                  /\ jerr' = [name |-> wd.err, at |-> "init"]
                  /\ written' = {}
                  /\ UNCHANGED cwdCfg
             ELSE /\ jpc' = FirstStep(cmd)
                  /\ jerr' = NoErr
                  /\ written' = {<<wd.dir, "vasp_config.yaml">>}
                  /\ cwdCfg' = IF wd.dir = "." THEN Map(merged) ELSE cwdCfg
    /\ lastResolve' = NoResolve
    /\ scriptText' = ""
    /\ grid' = <<>>
    /\ UNCHANGED <<prog, mainVars, ctlVars, baseCfg, pidFile, jobs, active, qdelFailed,
                   unrecorded>>

----------------------------------------------------------------------------
(* The command bodies: _handle_cp, _resolve_path, the five writers *)

TaskDir == work_dir \o "/" \o jcmd

\* _handle_cp: the destinations copied to, for the sources that exist
CpWrites(section) ==
    LET sc == OrEmptyDict(Get(config, section))
        cp == Get(sc.v, "cp")
    IN IF ~Truthy(cp) \/ cp.t # "map" THEN {}
       ELSE { <<TaskDir, cp.v[src].v>> : src \in DOMAIN cp.v \cap ExistingFiles }

\* a variant of ResolvePath in which the config value wins over the argument
ResolvePathConfigFirst(arg, section, key) ==
    LET section_cfg == OrEmptyDict(Get(config, section))
    IN IF Get(section_cfg.v, key) # None THEN Get(section_cfg.v, key) ELSE arg

\* _resolve_path; None stands for the ValueError it raises (it returns no None)
ResolvePath(arg, section, key) ==
    IF arg # None THEN arg
    ELSE LET section_cfg == OrEmptyDict(Get(config, section))
         IN Get(section_cfg.v, key)

IsPathLike(x) == x.t \in {"path", "str"}

FromFile(x) == IF x.v \in ExistingFiles THEN "written" ELSE "FileNotFoundError"

\* Path.read_text(): the text of an existing file (never the file's own name)
FileText(name) == "<text of " \o name \o ">"

\* _write_jobscript: what target.write_text receives
JobscriptText(val) == IF val.t = "path" THEN FileText(val.v) ELSE val.v

\* structure.lattice.reciprocal_lattice.abc of the POSCAR sources, in units of
\* 0.01 1/A (the KPR values are in the same unit)
Bnorm(name) == <<157, 105, 10>>

\* math.pi as the ratio PiNum / PiDen
PiNum == 355

PiDen == 113

Max(a, b) == IF a >= b THEN a ELSE b

\* max(1, math.floor(b / kpr / 2 / math.pi)) for one direction
GridDimension(b, kpr) == Max(1, (b * PiDen) \div (kpr * 2 * PiNum))

\* Job._calculate_grid_dimensions
CalculateGridDimensions(bnorm, kpr) ==
    <<GridDimension(bnorm[1], kpr), GridDimension(bnorm[2], kpr),
      GridDimension(bnorm[3], kpr)>>

\* _write_poscar, _write_incar, _write_potcar, _write_kpoints, _write_jobscript:
\* "written", "nothing" (returned without writing) or the exception raised
WriteOutcome(key, val, poscar) ==
    CASE key = "poscar" -> IF IsPathLike(val) THEN FromFile(val) ELSE "TypeError"
      [] key = "incar" -> IF IsPathLike(val) THEN FromFile(val)
                          ELSE IF val.t = "map" THEN "written" ELSE "TypeError"
      [] key = "potcar" -> IF IsPathLike(val) THEN FromFile(val) ELSE "TypeError"
      [] key = "kpoints" ->
            IF val = Str("line")
            THEN (IF poscar = None THEN "ValueError" ELSE FromFile(poscar))
            ELSE IF val.t = "num"
            THEN (IF poscar = None THEN "ValueError" ELSE FromFile(poscar))
            ELSE IF IsPathLike(val) THEN FromFile(val)
            ELSE "nothing"
      [] key = "jobscript" -> IF val.t = "path" THEN FromFile(val)
                              ELSE IF val.t = "str" THEN "written" ELSE "TypeError"

TargetName(key) ==
    CASE key = "poscar" -> "POSCAR"
      [] key = "incar" -> "INCAR"
      [] key = "potcar" -> "POTCAR"
      [] key = "kpoints" -> "KPOINTS"
      [] key = "jobscript" -> "jobscript.sh"

\* the command-line values an option can take (None: option not given)
ArgChoices(key) ==
    CASE key = "poscar" -> {None, PathV("POSCAR.in"), PathV("nofile")}
      [] key = "incar" -> {None, PathV("INCAR.in")}
      [] key = "potcar" -> {None, PathV("POTCAR.in")}
      [] key = "kpoints" -> {None, Str("line"), Str("0.03"), Str("KPOINTS.in")}
      [] key = "jobscript" -> {None, PathV("job.sh")}

KeyIndex(key) == CHOOSE i \in DOMAIN InputKeys : InputKeys[i] = key

AfterKey(key) ==
    IF KeyIndex(key) < Len(InputKeys) THEN InputKeys[KeyIndex(key) + 1] ELSE "cp2"

IsInputKey(p) == \E i \in DOMAIN InputKeys : InputKeys[i] = p

Fail(name) ==
    /\ jpc' = "failed"
    /\ jerr' = [name |-> name, at |-> jpc]

\* self._handle_cp(...) before the paths are resolved (relax and static only)
StepCp1 ==
    /\ prog = "vaspjobs" /\ jpc = "cp1"
    /\ written' = written \cup CpWrites(jcmd)
    /\ jpc' = InputKeys[1]
    /\ UNCHANGED <<prog, mainVars, ctlVars, inputVars, baseCfg, cwdCfg, pidFile, jobs, active, runs, jcmd, jyes,
                   config, work_dir, poscar_path, stdout, jerr, prompted, strace,
                   pid0, loaded, qdelFailed, unrecorded>>

\* x_path = self._resolve_path(x, cmd, "x"); self._write_x(x_path, cwd)
StepInput(arg) ==
    /\ prog = "vaspjobs" /\ IsInputKey(jpc)
    /\ arg \in ArgChoices(jpc)
    /\ LET val == ResolvePath(arg, jcmd, jpc)
           out == WriteOutcome(jpc, val, poscar_path)
       IN /\ lastResolve' = [key |-> jpc, arg |-> arg, val |-> val]
          /\ IF val = None
             THEN Fail("ValueError") /\ UNCHANGED <<written, poscar_path, scriptText, grid>>
             ELSE /\ poscar_path' = IF jpc = "poscar" THEN val ELSE poscar_path
                  /\ IF out \in {"written", "nothing"}
                     THEN /\ written' = IF out = "written"
                                        THEN written \cup {<<TaskDir, TargetName(jpc)>>}
                                        ELSE written
                          /\ scriptText' = IF jpc = "jobscript" /\ out = "written"
                                           THEN JobscriptText(val) ELSE scriptText
                          /\ grid' = IF jpc = "kpoints" /\ out = "written" /\ val.t = "num"
                                     THEN CalculateGridDimensions(Bnorm(poscar_path.v), val.v)
                                     ELSE grid
                          /\ jpc' = AfterKey(jpc)
                          /\ UNCHANGED jerr
                     ELSE Fail(out) /\ UNCHANGED <<written, scriptText, grid>>
    /\ UNCHANGED <<prog, mainVars, ctlVars, baseCfg, cwdCfg, pidFile, jobs, active, runs,
                   jcmd, jyes, config, work_dir, stdout, prompted, strace, pid0, loaded,
                   qdelFailed, unrecorded>>

\* a variant of StepCp2 that ignores --yes
StepCp2AlwaysConfirm ==
    /\ prog = "vaspjobs" /\ jpc = "cp2"
    /\ written' = written \cup CpWrites(jcmd)
    /\ jpc' = "confirm"
    /\ UNCHANGED <<prog, mainVars, ctlVars, inputVars, baseCfg, cwdCfg, pidFile, jobs, active, runs, jcmd, jyes,
                   config, work_dir, poscar_path, stdout, jerr, prompted, strace,
                   pid0, loaded, qdelFailed, unrecorded>>

\* self._handle_cp(...) after the input files, then `if yes:`
StepCp2 ==
    /\ prog = "vaspjobs" /\ jpc = "cp2"
    /\ written' = written \cup CpWrites(jcmd)
    /\ jpc' = IF jyes THEN "cancel" ELSE "confirm"
    /\ UNCHANGED <<prog, mainVars, ctlVars, inputVars, baseCfg, cwdCfg, pidFile, jobs, active, runs, jcmd, jyes,
                   config, work_dir, poscar_path, stdout, jerr, prompted, strace,
                   pid0, loaded, qdelFailed, unrecorded>>

\* a variant of Confirm without abort=True
ConfirmIgnoresAnswer(answer) ==
    /\ prog = "vaspjobs" /\ jpc = "confirm"
    /\ prompted' = IF answer THEN "yes" ELSE "no"
    /\ jpc' = "cancel"
    /\ UNCHANGED <<prog, mainVars, ctlVars, inputVars, baseCfg, cwdCfg, pidFile, jobs, active, runs, jcmd, jyes,
                   config, work_dir, poscar_path, stdout, jerr, written, strace, pid0,
                   loaded, qdelFailed, unrecorded>>

\* typer.confirm("Submit job?", abort=True)
Confirm(answer) ==
    /\ prog = "vaspjobs" /\ jpc = "confirm"
    /\ prompted' = IF answer THEN "yes" ELSE "no"
    /\ IF answer
       THEN jpc' = "cancel" /\ UNCHANGED jerr
       ELSE jpc' = "aborted" /\ jerr' = [name |-> "Abort", at |-> "confirm"]
    /\ UNCHANGED <<prog, mainVars, ctlVars, inputVars, baseCfg, cwdCfg, pidFile, jobs, active, runs, jcmd, jyes,
                   config, work_dir, poscar_path, stdout, written, strace, pid0,
                   loaded, qdelFailed, unrecorded>>

----------------------------------------------------------------------------
(* Job.submit(cwd), one step per external call *)

\* a variant of SubmitCancel that does not cancel the previous job
SubmitCancelSkipsQdel(outcome) ==
    /\ prog = "vaspjobs" /\ jpc = "cancel"
    /\ outcome = "ok"
    /\ pid0' = pidFile[TaskDir]
    /\ jpc' = "qsub"
    /\ UNCHANGED <<prog, mainVars, ctlVars, inputVars, baseCfg, cwdCfg, pidFile, jobs, active, runs, jcmd,
                   jyes, config, work_dir, poscar_path, stdout, jerr, written, prompted,
                   strace, loaded, qdelFailed, unrecorded>>

\* a variant of SubmitCancel with check=True and no try/except
SubmitCancelFatal(outcome) ==
    /\ prog = "vaspjobs" /\ jpc = "cancel"
    /\ pid0' = pidFile[TaskDir]
    /\ LET pid == pidFile[TaskDir]
       IN IF pid.exists /\ pid.text # <<>>
          THEN LET old == pid.text[1]
               IN /\ strace' = Append(strace, [op |-> "qdel", id |-> old, ok |-> outcome = "ok"])
                  /\ active' = IF outcome = "ok" THEN active \ {old} ELSE active
                  /\ qdelFailed' = IF outcome = "ok" THEN qdelFailed
                                   ELSE qdelFailed \cup {old}
                  /\ IF outcome = "ok" THEN jpc' = "qsub" /\ UNCHANGED jerr
                     ELSE Fail("CalledProcessError")
          ELSE /\ outcome = "ok"
               /\ jpc' = "qsub"
               /\ UNCHANGED <<strace, active, qdelFailed, jerr>>
    /\ UNCHANGED <<prog, mainVars, ctlVars, inputVars, baseCfg, cwdCfg, pidFile, jobs, runs, jcmd, jyes, config,
                   work_dir, poscar_path, stdout, written, prompted, loaded,
                   unrecorded>>

\* 1. `if pid_file.is_file(): old_pid = ...; if old_pid: subprocess.run(["qdel",
\* old_pid], check=False)` inside try/except Exception.  outcome: "ok" (the
\* scheduler cancels the job), "nonzero" (qdel exits non-zero), "raise" (qdel
\* cannot be launched).
SubmitCancel(outcome) ==
    /\ prog = "vaspjobs" /\ jpc = "cancel"
    /\ pid0' = pidFile[TaskDir]
    /\ LET pid == pidFile[TaskDir]
       IN IF pid.exists /\ pid.text # <<>>
          THEN LET old == pid.text[1]
               IN /\ strace' = Append(strace, [op |-> "qdel", id |-> old, ok |-> outcome = "ok"])
                  /\ active' = IF outcome = "ok" THEN active \ {old} ELSE active
                  /\ qdelFailed' = IF outcome = "ok" THEN qdelFailed
                                   ELSE qdelFailed \cup {old}
          ELSE /\ outcome = "ok"
               /\ UNCHANGED <<strace, active, qdelFailed>>
    /\ jpc' = "qsub"
    /\ UNCHANGED <<prog, mainVars, ctlVars, inputVars, baseCfg, cwdCfg, pidFile, jobs, runs, jcmd, jyes, config,
                   work_dir, poscar_path, stdout, jerr, written, prompted, loaded,
                   unrecorded>>

\* 2. subprocess.run(["qsub", "jobscript.sh"], check=True, cwd=cwd, stdout=PIPE).
\* outcome: "id" (job accepted, id printed), "silent" (job accepted, nothing
\* printed), "nonzero" (CalledProcessError), "raise" (qsub cannot be launched).
SubmitQsub(outcome) ==
    /\ prog = "vaspjobs" /\ jpc = "qsub"
    /\ IF outcome \in {"id", "silent"}
       THEN LET new == Len(jobs) + 1
            IN /\ jobs' = Append(jobs, TaskDir)
               /\ active' = active \cup {new}
               /\ stdout' = IF outcome = "id" THEN <<new>> ELSE <<>>
               /\ strace' = Append(strace, [op |-> "qsub", id |-> new, ok |-> TRUE])
               /\ jpc' = "writepid"
               /\ UNCHANGED jerr
       ELSE /\ strace' = Append(strace, [op |-> "qsub", id |-> 0, ok |-> FALSE])
            /\ Fail(IF outcome = "nonzero" THEN "CalledProcessError"
                    ELSE "FileNotFoundError")
            /\ UNCHANGED <<jobs, active, stdout>>
    /\ UNCHANGED <<prog, mainVars, ctlVars, inputVars, baseCfg, cwdCfg, pidFile, runs, jcmd, jyes, config,
                   work_dir, poscar_path, written, prompted, pid0, loaded,
                   qdelFailed, unrecorded>>

\* a variant of SubmitWritePid with the test on new_pid inverted
SubmitWritePidInverted ==
    /\ prog = "vaspjobs" /\ jpc = "writepid"
    /\ IF stdout = <<>>
       THEN /\ pidFile' = [pidFile EXCEPT ![TaskDir] = [exists |-> TRUE, text |-> stdout]]
            /\ written' = written \cup {<<TaskDir, "qsub.pid">>}
            /\ unrecorded' = unrecorded \cup {Len(jobs)}
       ELSE UNCHANGED <<pidFile, written, unrecorded>>
    /\ jpc' = "done"
    /\ UNCHANGED <<prog, mainVars, ctlVars, inputVars, baseCfg, cwdCfg, jobs, active, runs, jcmd, jyes, config,
                   work_dir, poscar_path, stdout, jerr, prompted, pid0, loaded,
                   qdelFailed, strace>>

\* 3. new_pid = result.stdout.strip(); if new_pid: pid_file.write_text(new_pid)
SubmitWritePid ==
    /\ prog = "vaspjobs" /\ jpc = "writepid"
    /\ IF stdout # <<>>
       THEN /\ pidFile' = [pidFile EXCEPT ![TaskDir] = [exists |-> TRUE, text |-> stdout]]
            /\ written' = written \cup {<<TaskDir, "qsub.pid">>}
            /\ strace' = Append(strace, [op |-> "write", id |-> stdout[1], ok |-> TRUE])
            /\ UNCHANGED unrecorded
       ELSE /\ unrecorded' = unrecorded \cup {Len(jobs)}
            /\ UNCHANGED <<pidFile, written, strace>>
    /\ jpc' = "done"
    /\ UNCHANGED <<prog, mainVars, ctlVars, inputVars, baseCfg, cwdCfg, jobs, active, runs, jcmd, jyes, config,
                   work_dir, poscar_path, stdout, jerr, prompted, pid0, loaded,
                   qdelFailed>>

----------------------------------------------------------------------------
(* main.py: the YAML task runner.  The config document keeps the order of   *)
(* its keys: it is a sequence of [k, v] entries with distinct keys.         *)

OMap(entries) == [t |-> "omap", v |-> entries]

\* config.get(key)
OGet(entries, key) ==
    IF \E i \in DOMAIN entries : entries[i].k = key
    THEN entries[CHOOSE i \in DOMAIN entries : entries[i].k = key].v
    ELSE None

\* list(config.keys())
OKeys(entries) == [i \in DOMAIN entries |-> entries[i].k]

\* [x for x in seq if Keep(x)]
RECURSIVE FilterOut(_, _)
FilterOut(seq, drop) ==
    IF seq = <<>> THEN <<>>
    ELSE IF Head(seq) \in drop THEN FilterOut(Tail(seq), drop)
    ELSE <<Head(seq)>> \o FilterOut(Tail(seq), drop)

\* seq.index(x), 1-based
IndexOf(seq, x) == CHOOSE i \in DOMAIN seq : seq[i] = x /\ \A j \in 1..(i - 1) : seq[j] # x

InSeq(seq, x) == \E i \in DOMAIN seq : seq[i] = x

\* the task sections of the candidate configs, named in YAML order
YamlNames == <<"relax", "static", "dos">>

\* the configured commands that start with "vaspkit", and what follows the word
VaspkitCommands == ("vaspkit -task 103" :> " -task 103") @@ ("vaspkit -task 102" :> " -task 102")

TaskCfgs ==
    { Map([poscar |-> Str("POSCAR.in"),
           chgcar |-> Str("CHGCAR.in"),
           potcar |-> Str("vaspkit -task 103"),
           kpoints |-> Str("echo Gamma > KPOINTS"),
           incar |-> Map([ENCUT |-> Num(520)]),
           jobscript |-> Str("#!/bin/bash")]),
      Map([poscar |-> Str("nofile"),
           kpoints |-> Str("vaspkit -task 102"),
           jobscript |-> Str("#!/bin/bash")]),
      Map([incar |-> Map([ENCUT |-> Num(400)])]),
      Str("see relax") }

TaskEntries(n) ==
    { e \in [1..n -> [k : {YamlNames[i] : i \in 1..n}, v : TaskCfgs]] :
        \A i \in 1..n : e[i].k = YamlNames[i] }

MainDocs ==
    { NoFile, None } \cup
    UNION { { OMap(e),
              OMap(<<[k |-> "global", v |-> Map([vaspkit |-> Str("vk")])]>> \o e \o
                   <<[k |-> "ending", v |-> Str("bye")]>>) } :
            e \in UNION { TaskEntries(n) : n \in 0..MaxTasks } }

PathChoices == { {"vaspkit", "vk"}, {"vaspkit"}, {} }

TaskArgs == { <<>>, <<"relax">>, <<"static">>, <<"static", "relax">>, <<"scf">> }

MainExisting == ExistingFiles \cup {"CHGCAR.in"}

NoMErr == [name |-> "", i |-> 0, step |-> ""]

\* _load_config; None stands for the FileNotFoundError
LoadConfig(file) == IF file.t = "absent" THEN None ELSE file

\* a variant of CheckVaspkit without the shutil.which test
CheckVaspkitUnchecked(global_cfg, path) ==
    IF "vaspkit" \in DOMAIN global_cfg THEN global_cfg["vaspkit"] ELSE Str("vaspkit")

\* _check_vaspkit; None stands for the RuntimeError
CheckVaspkit(global_cfg, path) ==
    LET name == IF "vaspkit" \in DOMAIN global_cfg THEN global_cfg["vaspkit"].v
                ELSE "vaspkit"
    IN IF name \in path THEN Str(name) ELSE None

\* a variant of TaskOrder whose yaml_order drops only `global`
TaskOrderKeepsEnding(entries, tasks, from_label) ==
    LET yaml_order == FilterOut(OKeys(entries), {"global"})
    IN IF tasks # <<>>
       THEN IF from_label
            THEN IF ~InSeq(yaml_order, tasks[1]) THEN None
                 ELSE List(SubSeq(yaml_order, IndexOf(yaml_order, tasks[1]), Len(yaml_order)))
            ELSE List(tasks)
       ELSE List(yaml_order)

\* a variant of TaskOrder that runs the given tasks whatever from_label says
TaskOrderIgnoresLabel(entries, tasks, from_label) ==
    LET yaml_order == FilterOut(OKeys(entries), {"global", "ending"})
    IN IF tasks # <<>> THEN List(tasks) ELSE List(yaml_order)

\* main(), lines 227-240: the order of the tasks; None stands for the early return
TaskOrder(entries, tasks, from_label) ==
    LET yaml_order == FilterOut(OKeys(entries), {"global", "ending"})
    IN IF tasks # <<>>
       THEN IF from_label
            THEN IF ~InSeq(yaml_order, tasks[1]) THEN None
                 ELSE List(SubSeq(yaml_order, IndexOf(yaml_order, tasks[1]), Len(yaml_order)))
            ELSE List(tasks)
       ELSE List(yaml_order)

MainFail(name, step) ==
    /\ mpc' = "failed"
    /\ merr' = [name |-> name, i |-> ti, step |-> step]

\* main(), lines 214-240: load the config, make and enter the working directory,
\* check vaspkit, compute the task order
MainStart ==
    /\ prog = "main" /\ mpc = "start"
    /\ LET cfg == LoadConfig(mcfg)
       IN IF cfg = None
          THEN MainFail("FileNotFoundError", "load")
               /\ UNCHANGED <<vaspkit_cmd, task_order, ti>>
          ELSE IF cfg.t # "omap"
          THEN MainFail("AttributeError", "load")
               /\ UNCHANGED <<vaspkit_cmd, task_order, ti>>
          ELSE LET global_cfg == OrEmptyDict(OGet(cfg.v, "global")).v
                   vk == CheckVaspkit(global_cfg, onPath)
                   order == TaskOrder(cfg.v, margs.tasks, margs.from_label)
               IN IF vk = None
                  THEN MainFail("RuntimeError", "vaspkit")
                       /\ UNCHANGED <<vaspkit_cmd, task_order, ti>>
                  ELSE /\ vaspkit_cmd' = vk.v
                       /\ UNCHANGED merr
                       /\ IF order = None
                          THEN mpc' = "done" /\ UNCHANGED <<task_order, ti>>
                          ELSE /\ task_order' = order.v
                               /\ ti' = 1
                               /\ mpc' = IF order.v = <<>> THEN "done" ELSE "begin"
    /\ UNCHANGED <<prog, jobVars, ctlVars, mvisited, mcfg, onPath, margs, mfiles, mdirs, mwritten, mlog,
                   maborted>>

Task == task_order[ti]

TaskCfg == OGet(mcfg.v, Task)

\* the for loop of main(): the next task, or the end of the run
NextTask ==
    /\ ti' = ti + 1
    /\ mpc' = IF ti < Len(task_order) THEN "begin" ELSE "done"

Event(step, ok) == [i |-> ti, task |-> Task, step |-> step, ok |-> ok, cmd |-> ""]

\* cmd = raw_cmd.strip(); if cmd.startswith("vaspkit"): cmd = cmd.replace("vaspkit",
\* vaspkit_cmd, 1)
ShellCommand(raw_cmd) ==
    IF raw_cmd \in DOMAIN VaspkitCommands THEN vaspkit_cmd \o VaspkitCommands[raw_cmd]
    ELSE raw_cmd

\* _process_task, lines 152-155: skip a task whose config is not a dict
TaskBegin ==
    /\ prog = "main" /\ mpc = "begin"
    /\ mvisited' = Append(mvisited, Task)
    /\ IF TaskCfg.t # "map" THEN NextTask ELSE mpc' = "poscar" /\ UNCHANGED ti
    /\ UNCHANGED <<prog, jobVars, ctlVars, mcfg, onPath, margs, vaspkit_cmd, task_order,
                   mfiles, mdirs, mwritten, mlog, merr, maborted>>

\* a variant of TaskCopy that copies before testing the source
TaskCopyBeforeCheck ==
    /\ prog = "main" /\ mpc \in {"poscar", "chgcar"}
    /\ LET spec == Get(TaskCfg.v, mpc)
           target == IF mpc = "poscar" THEN "POSCAR" ELSE "CHGCAR"
           after == IF mpc = "poscar" THEN "chgcar" ELSE "potcar"
       IN IF ~Truthy(spec)
          THEN mpc' = after /\ UNCHANGED <<mdirs, mfiles, mwritten, mlog, merr>>
          ELSE /\ mdirs' = mdirs \cup {Task}
               /\ mfiles' = mfiles \cup {<<Task, target>>}
               /\ mwritten' = mwritten \cup {<<Task, target>>}
               /\ mlog' = Append(mlog, Event(mpc, TRUE))
               /\ IF spec.v \notin MainExisting
                  THEN MainFail("FileNotFoundError", mpc)
                  ELSE mpc' = after /\ UNCHANGED merr
    /\ UNCHANGED <<prog, jobVars, ctlVars, mvisited, mcfg, onPath, margs, vaspkit_cmd, task_order, ti,
                   maborted>>

\* _prepare_poscar and _prepare_chgcar: mkdir the task directory, check the
\* source, copy it
TaskCopy ==
    /\ prog = "main" /\ mpc \in {"poscar", "chgcar"}
    /\ LET spec == Get(TaskCfg.v, mpc)
           target == IF mpc = "poscar" THEN "POSCAR" ELSE "CHGCAR"
           after == IF mpc = "poscar" THEN "chgcar" ELSE "potcar"
       IN IF ~Truthy(spec)
          THEN mpc' = after /\ UNCHANGED <<mdirs, mfiles, mwritten, mlog, merr>>
          ELSE /\ mdirs' = mdirs \cup {Task}
               /\ IF spec.v \notin MainExisting
                  THEN MainFail("FileNotFoundError", mpc)
                       /\ UNCHANGED <<mfiles, mwritten, mlog>>
                  ELSE /\ mfiles' = mfiles \cup {<<Task, target>>}
                       /\ mwritten' = mwritten \cup {<<Task, target>>}
                       /\ mlog' = Append(mlog, Event(mpc, TRUE))
                       /\ mpc' = after
                       /\ UNCHANGED merr
    /\ UNCHANGED <<prog, jobVars, ctlVars, mvisited, mcfg, onPath, margs, vaspkit_cmd, task_order, ti,
                   maborted>>

\* a variant of TaskCommand with check=False
TaskCommandNoCheck(exit0) ==
    /\ prog = "main" /\ mpc \in {"potcar", "kpoints"}
    /\ LET raw_cmd == Get(TaskCfg.v, mpc)
           after == IF mpc = "potcar" THEN "kpoints" ELSE "incar"
       IN IF ~Truthy(raw_cmd)
          THEN exit0 /\ mpc' = after /\ UNCHANGED <<mdirs, mlog>>
          ELSE /\ mdirs' = mdirs \cup {Task}
               /\ mlog' = Append(mlog, [Event(mpc, exit0) EXCEPT !.cmd = ShellCommand(raw_cmd.v)])
               /\ mpc' = after
    /\ UNCHANGED <<prog, jobVars, ctlVars, mvisited, mcfg, onPath, margs, vaspkit_cmd, task_order, ti,
                   mfiles, mwritten, merr, maborted>>

\* _run_command_in_task for the potcar and kpoints commands:
\* subprocess.run(cmd, shell=True, cwd=task_dir, check=True); exit0 is its outcome
TaskCommand(exit0) ==
    /\ prog = "main" /\ mpc \in {"potcar", "kpoints"}
    /\ LET raw_cmd == Get(TaskCfg.v, mpc)
           after == IF mpc = "potcar" THEN "kpoints" ELSE "incar"
           out == IF mpc = "potcar" THEN "POTCAR" ELSE "KPOINTS"
       IN IF ~Truthy(raw_cmd)
          THEN exit0 /\ mpc' = after /\ UNCHANGED <<mdirs, mfiles, mwritten, mlog, merr>>
          ELSE /\ mdirs' = mdirs \cup {Task}
               /\ mlog' = Append(mlog, [Event(mpc, exit0) EXCEPT !.cmd = ShellCommand(raw_cmd.v)])
               /\ IF exit0
                  THEN /\ mfiles' = mfiles \cup {<<Task, out>>}
                       /\ mwritten' = mwritten \cup {<<Task, out>>}
                       /\ mpc' = after
                       /\ UNCHANGED merr
                  ELSE MainFail("CalledProcessError", mpc) /\ UNCHANGED <<mfiles, mwritten>>
    /\ UNCHANGED <<prog, jobVars, ctlVars, mvisited, mcfg, onPath, margs, vaspkit_cmd, task_order, ti,
                   maborted>>

\* `if isinstance(incar_cfg, dict): _write_incar(...)` and
\* `_write_jobscript(task_name, work_dir, jobscript_content or "")`
TaskWrite ==
    /\ prog = "main" /\ mpc \in {"incar", "jobscript"}
    /\ LET val == Get(TaskCfg.v, mpc)
           target == IF mpc = "incar" THEN "INCAR" ELSE "jobscript.sh"
           doit == IF mpc = "incar" THEN val.t = "map" /\ Truthy(val) ELSE Truthy(val)
       IN IF doit
          THEN /\ mdirs' = mdirs \cup {Task}
               /\ mfiles' = mfiles \cup {<<Task, target>>}
               /\ mwritten' = mwritten \cup {<<Task, target>>}
               /\ mlog' = Append(mlog, Event(mpc, TRUE))
          ELSE UNCHANGED <<mdirs, mfiles, mwritten, mlog>>
    /\ mpc' = IF mpc = "incar" THEN "jobscript" ELSE "submit"
    /\ UNCHANGED <<prog, jobVars, ctlVars, mvisited, mcfg, onPath, margs, vaspkit_cmd, task_order, ti,
                   merr, maborted>>

\* a variant of TaskSubmit that goes on to the next task when the user declines
TaskSubmitDeclineContinues(answer) ==
    /\ prog = "main" /\ mpc = "submit"
    /\ IF <<Task, "jobscript.sh">> \notin mfiles
       THEN answer /\ NextTask /\ UNCHANGED <<mlog, maborted>>
       ELSE IF margs.yes
       THEN answer /\ mpc' = "qsub" /\ UNCHANGED <<ti, mlog, maborted>>
       ELSE /\ mlog' = Append(mlog, Event("prompt", answer))
            /\ IF answer
               THEN mpc' = "qsub" /\ UNCHANGED <<ti, maborted>>
               ELSE NextTask /\ maborted' = TRUE
    /\ UNCHANGED <<prog, jobVars, ctlVars, mvisited, mcfg, onPath, margs, vaspkit_cmd, task_order, mfiles,
                   mdirs, mwritten, merr>>

\* _submit_job up to the qsub call: skip when there is no jobscript.sh, ask
\* unless auto_yes, raise AbortTasks when the user declines (main() catches it)
TaskSubmit(answer) ==
    /\ prog = "main" /\ mpc = "submit"
    /\ IF <<Task, "jobscript.sh">> \notin mfiles
       THEN answer /\ NextTask /\ UNCHANGED <<mlog, maborted>>
       ELSE IF margs.yes
       THEN answer /\ mpc' = "qsub" /\ UNCHANGED <<ti, mlog, maborted>>
       ELSE /\ mlog' = Append(mlog, Event("prompt", answer))
            /\ IF answer
               THEN mpc' = "qsub" /\ UNCHANGED <<ti, maborted>>
               ELSE mpc' = "done" /\ maborted' = TRUE /\ UNCHANGED ti
    /\ UNCHANGED <<prog, jobVars, ctlVars, mvisited, mcfg, onPath, margs, vaspkit_cmd, task_order, mfiles,
                   mdirs, mwritten, merr>>

jobRunVars == <<baseCfg, cwdCfg, pidFile, runs, jpc, jcmd, jyes, config, work_dir,
                poscar_path, stdout, jerr, written, prompted, strace, pid0, loaded,
                qdelFailed, unrecorded, inputVars>>

\* subprocess.run("qsub " + script_path.name, shell=True, cwd=..., check=True)
TaskQsub(exit0) ==
    /\ prog = "main" /\ mpc = "qsub"
    /\ mlog' = Append(mlog, [Event("qsub", exit0) EXCEPT !.cmd = "qsub jobscript.sh"])
    /\ IF exit0
       THEN /\ jobs' = Append(jobs, "./" \o Task)
            /\ active' = active \cup {Len(jobs) + 1}
            /\ NextTask
            /\ UNCHANGED merr
       ELSE MainFail("CalledProcessError", "qsub") /\ UNCHANGED <<jobs, active, ti>>
    /\ UNCHANGED <<prog, jobRunVars, ctlVars, mvisited, mcfg, onPath, margs, vaspkit_cmd, task_order,
                   mfiles, mdirs, mwritten, maborted>>

----------------------------------------------------------------------------
(* ShengBTE/control.py: write_control *)

CtlExisting == ExistingFiles \cup {"OUTCAR"}

\* the local variables `born` and `epsilon` are assigned only inside `if is_born:`
BornIsBound(args) == args.is_born

\* write_control up to `with output.open("w")`: the exception raised, or ""
ControlError(args) ==
    IF args.poscar.v \notin CtlExisting THEN "FileNotFoundError"
    ELSE IF args.is_born /\ args.outcar = None THEN "ValueError"
    ELSE IF args.is_born /\ args.outcar.v \notin CtlExisting THEN "FileNotFoundError"
    ELSE IF ~BornIsBound(args) THEN "UnboundLocalError"
    ELSE ""

\* write_control, the whole command
WriteControl ==
    /\ prog = "control" /\ cpc = "start"
    /\ cerr' = ControlError(cargs)
    /\ IF ControlError(cargs) = ""
       THEN cpc' = "done" /\ cwritten' = {"CONTROL"}
       ELSE cpc' = "failed" /\ UNCHANGED cwritten
    /\ UNCHANGED <<prog, jobVars, mainVars, cargs>>

----------------------------------------------------------------------------
(* Specification *)

JobIdle ==
    /\ pidFile = [d \in TaskDirs |-> NoPid]
    /\ jobs = <<>>
    /\ active = {}
    /\ runs = 0
    /\ jpc = "idle"
    /\ jcmd = "relax"
    /\ jyes = FALSE
    /\ config = EmptyDict
    /\ work_dir = "."
    /\ poscar_path = None
    /\ stdout = <<>>
    /\ jerr = NoErr
    /\ written = {}
    /\ prompted = "none"
    /\ strace = <<>>
    /\ pid0 = NoPid
    /\ loaded = <<NoFile, NoFile>>
    /\ qdelFailed = {}
    /\ unrecorded = {}
    /\ lastResolve = NoResolve
    /\ scriptText = ""
    /\ grid = <<>>

MainIdle ==
    /\ mpc = "start"
    /\ vaspkit_cmd = ""
    /\ task_order = <<>>
    /\ ti = 0
    /\ mdirs = {}
    /\ mwritten = {}
    /\ mlog = <<>>
    /\ merr = NoMErr
    /\ maborted = FALSE
    /\ mvisited = <<>>

CtlIdle ==
    /\ cargs = [poscar |-> PathV("POSCAR.in"), is_born |-> FALSE, outcar |-> None]
    /\ cpc = "start"
    /\ cerr = ""
    /\ cwritten = {}

\* a vaspjobs behaviour: the two config files are as the user left them
JobInit ==
    /\ prog = "vaspjobs"
    /\ baseCfg \in BaseDocs
    /\ cwdCfg \in CwdDocs
    /\ JobIdle
    /\ mcfg = NoFile /\ onPath = {} /\ mfiles = {}
    /\ margs = [tasks |-> <<>>, yes |-> FALSE, from_label |-> FALSE]
    /\ MainIdle
    /\ CtlIdle

\* a main.py behaviour: the config file, PATH, the command line, and whether the
\* task directories hold a jobscript.sh from an earlier run
MainInit ==
    /\ prog = "main"
    /\ mcfg \in MainDocs
    /\ onPath \in PathChoices
    /\ margs \in [tasks : TaskArgs, yes : BOOLEAN, from_label : BOOLEAN]
    /\ mfiles \in { {}, { <<YamlNames[i], "jobscript.sh">> : i \in DOMAIN YamlNames } }
    /\ MainIdle
    /\ baseCfg = NoFile /\ cwdCfg = NoFile
    /\ JobIdle
    /\ CtlIdle

\* a write_control behaviour: its command line
CtlInit ==
    /\ prog = "control"
    /\ cargs \in [poscar : {PathV("POSCAR.in"), PathV("nofile")},
                  is_born : BOOLEAN,
                  outcar : {None, PathV("OUTCAR"), PathV("nofile")}]
    /\ cpc = "start" /\ cerr = "" /\ cwritten = {}
    /\ baseCfg = NoFile /\ cwdCfg = NoFile
    /\ JobIdle
    /\ mcfg = NoFile /\ onPath = {} /\ mfiles = {}
    /\ margs = [tasks |-> <<>>, yes |-> FALSE, from_label |-> FALSE]
    /\ MainIdle

Init == JobInit \/ MainInit \/ CtlInit

JobNext ==
    \/ \E cmd \in Cmds, yes \in BOOLEAN : Invoke(cmd, yes)
    \/ StepCp1
    \/ \E arg \in UNION { ArgChoices(InputKeys[i]) : i \in DOMAIN InputKeys } : StepInput(arg)
    \/ StepCp2
    \/ \E answer \in BOOLEAN : Confirm(answer)
    \/ \E outcome \in {"ok", "nonzero", "raise"} : SubmitCancel(outcome)
    \/ \E outcome \in {"id", "silent", "nonzero", "raise"} : SubmitQsub(outcome)
    \/ SubmitWritePid

MainNext ==
    \/ MainStart
    \/ TaskBegin
    \/ TaskCopy
    \/ \E exit0 \in BOOLEAN : TaskCommand(exit0)
    \/ TaskWrite
    \/ \E answer \in BOOLEAN : TaskSubmit(answer)
    \/ \E exit0 \in BOOLEAN : TaskQsub(exit0)

CtlNext == WriteControl

Next == JobNext \/ MainNext \/ CtlNext

Spec == Init /\ [][Next]_vars

----------------------------------------------------------------------------
(* Properties *)

VaspJobs == prog = "vaspjobs"

Main == prog = "main"

\* Job.submit has been entered in this run and has passed its cancellation step
PastCancel == jpc \in {"qsub", "writepid"} \/ strace # <<>>

\* qsub.pid held a non-empty id when Job.submit read it
QdelDue == pid0.exists /\ pid0.text # <<>>

HasOp(op) == \E i \in DOMAIN strace : strace[i].op = op

\* C1: Job.submit calls qdel on the old id (when qsub.pid holds one) first, then
\* qsub, then writes the printed id to qsub.pid: qdel is never called after
\* qsub, and qsub.pid is not rewritten before qsub has returned successfully.
C1_SubmitOrder ==
    (VaspJobs /\ PastCancel) =>
        /\ \A i \in DOMAIN strace :
              /\ strace[i].op = "qdel" =>
                    i = 1 /\ QdelDue /\ strace[i].id = pid0.text[1]
              /\ strace[i].op = "qsub" =>
                    IF QdelDue THEN i = 2 /\ strace[1].op = "qdel" ELSE i = 1
              /\ strace[i].op = "write" =>
                    /\ i > 1 /\ i = Len(strace)
                    /\ strace[i - 1].op = "qsub" /\ strace[i - 1].ok
                    /\ strace[i - 1].id = strace[i].id
        /\ IF HasOp("write")
           THEN pidFile[TaskDir] = [exists |-> TRUE, text |-> <<strace[Len(strace)].id>>]
           ELSE pidFile[TaskDir] = pid0

C1_Witness ==
    /\ VaspJobs /\ jpc = "done" /\ Len(strace) = 3
    /\ strace[1].op = "qdel" /\ strace[2].op = "qsub" /\ strace[3].op = "write"

ActiveFrom(d) == { j \in active : jobs[j] = d }

\* C2 as stated: at most one job submitted from a task directory is active,
\* whatever the outcomes of qdel and qsub.
C2_AtMostOneActive ==
    VaspJobs => \A d \in TaskDirs : Cardinality(ActiveFrom(d)) <= 1

\* C2 as amended: between Job.submit calls, every active job other than the one
\* whose id qsub.pid holds is a job whose qdel failed or whose id qsub did not
\* print; when no qdel failed and every accepted qsub printed its id, at most one
\* job per task directory is active.
C2_ActiveExplained ==
    (VaspJobs /\ jpc # "writepid") =>
        /\ \A j \in active :
              \/ pidFile[jobs[j]] = [exists |-> TRUE, text |-> <<j>>]
              \/ j \in qdelFailed
              \/ j \in unrecorded
        /\ (qdelFailed = {} /\ unrecorded = {}) =>
              \A d \in TaskDirs : Cardinality(ActiveFrom(d)) <= 1

C2_Witness ==
    /\ VaspJobs /\ jpc = "done" /\ Len(jobs) >= 2 /\ jobs[1] = jobs[2]
    /\ qdelFailed = {} /\ unrecorded = {}
    /\ active = {Len(jobs)}

\* the qdel of this run's Job.submit did not succeed
QdelFailedNow == strace # <<>> /\ strace[1].op = "qdel" /\ ~strace[1].ok

\* C3: a qdel that exits non-zero or cannot be launched does not end Job.submit:
\* qsub is still invoked, and the id it prints is written to qsub.pid.
C3_CancelFailureNotFatal ==
    (VaspJobs /\ QdelFailedNow) =>
        /\ jerr.at # "cancel"
        /\ jpc # "qsub" => (Len(strace) >= 2 /\ strace[2].op = "qsub")
        /\ (jpc = "done" /\ stdout # <<>>) =>
              pidFile[TaskDir] = [exists |-> TRUE, text |-> stdout]

C3_Witness ==
    /\ VaspJobs /\ QdelFailedNow /\ jpc = "done" /\ stdout # <<>>
    /\ pidFile[TaskDir].text = stdout

\* what a config file contributes: its mapping, or nothing when the file is
\* absent or is not a mapping
Contribution(file) == IF file.t = "map" THEN file.v ELSE EmptyDict

\* C4: the merged configuration has, for every key, the working-directory
\* file's value when that file defines the key and the module-default value
\* otherwise; an absent or non-mapping file contributes nothing.
C4_MergedConfigOverrides ==
    (VaspJobs /\ runs > 0) =>
        LET base == Contribution(loaded[1])
            over == Contribution(loaded[2])
        IN /\ DOMAIN config = DOMAIN base \cup DOMAIN over
           /\ \A k \in DOMAIN config :
                 config[k] = IF k \in DOMAIN over THEN over[k] ELSE base[k]

C4_Witness ==
    /\ VaspJobs /\ runs > 0
    /\ loaded[1].t = "map" /\ loaded[2].t = "map"
    /\ \E k \in DOMAIN loaded[1].v \cap DOMAIN loaded[2].v :
          loaded[1].v[k] # loaded[2].v[k] /\ config[k] = loaded[2].v[k]
    /\ \E k \in DOMAIN loaded[1].v \ DOMAIN loaded[2].v : config[k] = loaded[1].v[k]

MainPrompts == { i \in DOMAIN mlog : mlog[i].step = "prompt" }

MainQsubs == { i \in DOMAIN mlog : mlog[i].step = "qsub" }

\* C5: with --yes/-y no confirmation prompt is shown, in the task runner and in
\* the vaspjobs commands.
C5_YesNeverPrompts ==
    /\ (VaspJobs /\ jyes) => prompted = "none"
    /\ (Main /\ margs.yes) => MainPrompts = {}

C5_Witness ==
    /\ VaspJobs /\ jyes /\ jpc = "done" /\ HasOp("qsub") /\ prompted = "none"

C5_WitnessMain ==
    /\ Main /\ margs.yes /\ mpc = "done" /\ Cardinality(MainQsubs) = 2

\* C6: without --yes/-y every qsub (and, in Job.submit, qdel) is preceded by a
\* confirmation prompt answered yes; when the user declines, neither is invoked
\* and qsub.pid is not written.
C6_SubmissionNeedsConfirmation ==
    /\ (VaspJobs /\ ~jyes) =>
          /\ (jpc \in {"cancel", "qsub", "writepid"} \/ strace # <<>>) => prompted = "yes"
          /\ prompted = "no" =>
                /\ jpc = "aborted" /\ strace = <<>>
                /\ <<TaskDir, "qsub.pid">> \notin written
    /\ (Main /\ ~margs.yes) =>
          /\ \A i \in MainQsubs :
                /\ i > 1
                /\ mlog[i - 1].step = "prompt" /\ mlog[i - 1].ok
                /\ mlog[i - 1].i = mlog[i].i
          /\ mpc = "qsub" =>
                /\ mlog # <<>>
                /\ mlog[Len(mlog)].step = "prompt" /\ mlog[Len(mlog)].ok
                /\ mlog[Len(mlog)].i = ti
          /\ \A i \in MainPrompts : ~mlog[i].ok => (i = Len(mlog) /\ maborted)

C6_Witness ==
    /\ Main /\ ~margs.yes /\ mpc = "done" /\ ~maborted /\ Cardinality(MainQsubs) = 2

C6_WitnessDeclined ==
    /\ VaspJobs /\ ~jyes /\ prompted = "no" /\ pidFile[TaskDir].exists

\* the run failed on a missing `poscar` source
MainPoscarMissing == Main /\ mpc = "failed" /\ merr.step = "poscar"

\* C7 as stated: when the poscar source of a task is missing, the run fails
\* before writing any file and before submitting any job, for every task.
C7_NothingWrittenAtAll ==
    MainPoscarMissing => (mwritten = {} /\ mlog = <<>> /\ jobs = <<>>)

\* C7 as amended: when the poscar source of a task is missing, the run fails
\* before any step of that task and of the tasks after it: every file written,
\* command run and job submitted belongs to a task earlier in the order, and
\* nothing is written into the failing task's directory.
C7_NothingWrittenFromFailingTask ==
    MainPoscarMissing =>
        /\ merr.name = "FileNotFoundError"
        /\ \A i \in DOMAIN mlog : mlog[i].i < merr.i
        /\ \A f \in mwritten : f[1] # task_order[merr.i]

C7_Witness ==
    /\ MainPoscarMissing /\ merr.i = 2
    /\ \E i \in MainQsubs : mlog[i].ok
    /\ mwritten # {}

\* the vaspjobs command failed resolving or reading its POSCAR source
JobPoscarMissing == VaspJobs /\ jpc = "failed" /\ jerr.at = "poscar"

InputTargets == { TargetName(InputKeys[i]) : i \in DOMAIN InputKeys }

\* C8 as stated: when the POSCAR source is missing, the vaspjobs command fails
\* before anything is written or copied (vasp_config.yaml and the cp copies
\* included) and before any job is submitted.
C8_NothingWrittenAtAll ==
    JobPoscarMissing => (written = {} /\ strace = <<>>)

\* C8 as amended: when the POSCAR source is missing, the vaspjobs command fails
\* before writing any input file (POSCAR, INCAR, POTCAR, KPOINTS, jobscript.sh)
\* and before any qdel or qsub; the merged vasp_config.yaml has been written by
\* Job.__init__, and relax and static have made their cp copies.
C8_OnlyConfigAndCopiesWritten ==
    JobPoscarMissing =>
        /\ jerr.name \in {"ValueError", "FileNotFoundError"}
        /\ <<work_dir, "vasp_config.yaml">> \in written
        /\ written \ {<<work_dir, "vasp_config.yaml">>} =
              IF jcmd \in {"relax", "static"} THEN CpWrites(jcmd) ELSE {}
        /\ strace = <<>>
        /\ <<TaskDir, "qsub.pid">> \notin written

C8_Witness ==
    /\ JobPoscarMissing /\ jcmd = "relax" /\ jerr.name = "FileNotFoundError"
    /\ <<TaskDir, "WAVECAR">> \in written

\* the executable name main() looks up: global.vaspkit, default "vaspkit"
ConfiguredVaspkit ==
    LET g == OGet(mcfg.v, "global")
    IN IF g.t = "map" /\ "vaspkit" \in DOMAIN g.v THEN g.v["vaspkit"].v ELSE "vaspkit"

\* C9: when the config file does not exist or the configured vaspkit is not on
\* PATH, the run ends with an error before any task is processed: no task
\* directory, no task file, no command, no submission.
C9_FailsBeforeAnyTask ==
    (Main /\ (mcfg.t = "absent" \/ (mcfg.t = "omap" /\ ConfiguredVaspkit \notin onPath))) =>
        /\ mpc \in {"start", "failed"}
        /\ mpc = "failed" => merr.name \in {"FileNotFoundError", "RuntimeError"}
        /\ mdirs = {} /\ mwritten = {} /\ mlog = <<>> /\ jobs = <<>>

C9_Witness ==
    /\ Main /\ mpc = "failed" /\ merr.name = "RuntimeError"
    /\ Len(FilterOut(OKeys(mcfg.v), {"global", "ending"})) = 2
    /\ margs.tasks = <<>>

StepRank(step) ==
    CASE step = "poscar" -> 1
      [] step = "chgcar" -> 2
      [] step = "potcar" -> 3
      [] step = "kpoints" -> 4
      [] step = "incar" -> 5
      [] step = "jobscript" -> 6
      [] step = "prompt" -> 7
      [] step = "qsub" -> 8

\* C10: tasks are processed one after another in the task order, each task's
\* steps in program order, and a potcar/kpoints command or qsub that exits
\* non-zero ends the run: it is the last step executed.
C10_SequentialAndFailFast ==
    Main =>
        /\ \A i, j \in DOMAIN mlog :
              i < j => \/ mlog[i].i < mlog[j].i
                       \/ /\ mlog[i].i = mlog[j].i
                          /\ StepRank(mlog[i].step) < StepRank(mlog[j].step)
        /\ \A i \in DOMAIN mlog :
              (mlog[i].step \in {"potcar", "kpoints", "qsub"} /\ ~mlog[i].ok) =>
                  /\ i = Len(mlog)
                  /\ mpc = "failed" /\ merr.name = "CalledProcessError"
                  /\ merr.i = mlog[i].i /\ merr.step = mlog[i].step

C10_Witness ==
    /\ Main /\ mpc = "failed" /\ merr.name = "CalledProcessError"
    /\ merr.i = 1 /\ Len(task_order) = 2
    /\ TaskCfg.t = "map" /\ OGet(mcfg.v, task_order[2]).t = "map"
    /\ Len(mlog) > 1

----------------------------------------------------------------------------
(* The order of the tasks *)

\* the positions of the task sections among the top-level keys of the config
TaskKeyPositions ==
    { p \in DOMAIN mcfg.v : mcfg.v[p].k \notin {"global", "ending"} }

\* the position among the top-level keys of the i-th task the run has entered
VisitedPosition(i) == CHOOSE p \in DOMAIN mcfg.v : mcfg.v[p].k = mvisited[i]

RanToEnd == mpc = "done" /\ ~maborted

\* the tasks entered so far are the task sections from position `first` on, in
\* the order of the file, none skipped and none repeated; a run that reached its
\* end without a failure and without a declined prompt has entered all of them
VisitsSuffixFrom(first) ==
    /\ \A i \in DOMAIN mvisited :
          \E p \in TaskKeyPositions : p >= first /\ mcfg.v[p].k = mvisited[i]
    /\ \A i, j \in DOMAIN mvisited : i < j => VisitedPosition(i) < VisitedPosition(j)
    /\ \A i \in DOMAIN mvisited : \A p \in TaskKeyPositions :
          (first <= p /\ p < VisitedPosition(i)) =>
             \E j \in 1..(i - 1) : mvisited[j] = mcfg.v[p].k
    /\ RanToEnd =>
          \A p \in TaskKeyPositions : p >= first =>
             \E i \in DOMAIN mvisited : mvisited[i] = mcfg.v[p].k

MainStarted == Main /\ mpc # "start" /\ mcfg.t = "omap"

\* C11: run with no task arguments, main.py processes every top-level key of the
\* config except `global` and `ending`, each exactly once, in the order of the
\* YAML file (a run that is not cut short by a failing step or a declined prompt
\* processes all of them; one that is cut short has processed a prefix).
C11_AllTasksInYamlOrder ==
    (MainStarted /\ margs.tasks = <<>>) => VisitsSuffixFrom(1)

C11_Witness ==
    /\ MainStarted /\ margs.tasks = <<>> /\ RanToEnd
    /\ Len(mcfg.v) = 4 /\ mvisited = <<"relax", "static">>

\* the positions of the first task argument among the task sections of the config;
\* empty when it is not one of them
FirstArgPositions ==
    { p \in TaskKeyPositions : mcfg.v[p].k = margs.tasks[1] }

\* C12: with --from-label and task arguments, main.py processes exactly the tasks
\* from the first task argument to the end of the YAML order, whatever the other
\* task arguments are; when the first task argument is not a task of the config,
\* no task is processed and nothing is submitted.
C12_FromLabelRunsSuffix ==
    (MainStarted /\ margs.from_label /\ margs.tasks # <<>>) =>
        IF FirstArgPositions = {}
        THEN mvisited = <<>> /\ mlog = <<>> /\ mwritten = {} /\ jobs = <<>>
             /\ mpc \in {"done", "failed"}
        ELSE /\ VisitsSuffixFrom(CHOOSE p \in FirstArgPositions : TRUE)
             /\ mvisited # <<>> => mvisited[1] = margs.tasks[1]

C12_Witness ==
    /\ MainStarted /\ margs.from_label /\ RanToEnd
    /\ margs.tasks = <<"relax">> /\ mvisited = <<"relax", "static">>
    /\ Cardinality(MainQsubs) = 2

C12_WitnessOtherArgs ==
    /\ MainStarted /\ margs.from_label /\ RanToEnd
    /\ margs.tasks = <<"static", "relax">> /\ mvisited = <<"static">>
    /\ Len(mcfg.v) = 4 /\ Cardinality(MainQsubs) = 1

C12_WitnessNotFound ==
    /\ MainStarted /\ margs.from_label /\ margs.tasks = <<"scf">> /\ mpc = "done"
    /\ Len(mcfg.v) = 4

\* the events of the log that belong to the task entered i-th
EventsOf(i) == { e \in DOMAIN mlog : mlog[e].i = i }

\* C13: in the task runner, when the user declines the confirmation prompt of a
\* task the remaining tasks are aborted: no job is submitted for that task and no
\* step (file write, command, prompt or submission) of a later task is executed.
C13_DeclineAbortsRemaining ==
    Main =>
       /\ \A e \in MainPrompts : ~mlog[e].ok =>
             /\ maborted /\ mpc = "done"
             /\ e = Len(mlog)
             /\ mlog[e].i = ti /\ Len(mvisited) = ti
             /\ \A q \in MainQsubs : mlog[q].i # mlog[e].i
             /\ \A j \in (ti + 1)..Len(task_order) :
                   /\ EventsOf(j) = {}
                   /\ (\A k \in 1..ti : task_order[k] # task_order[j]) =>
                         /\ task_order[j] \notin mdirs
                         /\ \A f \in mwritten : f[1] # task_order[j]
       /\ maborted => (mlog # <<>> /\ mlog[Len(mlog)].step = "prompt" /\ ~mlog[Len(mlog)].ok)

C13_Witness ==
    /\ Main /\ maborted /\ ti = 1 /\ Len(task_order) = 2
    /\ mlog[Len(mlog)].step = "prompt" /\ ~mlog[Len(mlog)].ok
    /\ <<task_order[1], "jobscript.sh">> \in mwritten

----------------------------------------------------------------------------
(* The inputs of a command *)

\* the merged config has a value for the key last resolved, in the section of
\* the command that runs
ConfigHasKey ==
    /\ jcmd \in DOMAIN config /\ config[jcmd].t = "map"
    /\ lastResolve.key \in DOMAIN config[jcmd].v
    /\ config[jcmd].v[lastResolve.key] # None

Resolved == VaspJobs /\ lastResolve.key # ""

\* C14: Job._resolve_path returns the command-line argument whenever one is
\* given, otherwise config[section][key], and raises ValueError when neither
\* exists; in that case the command submits no job (no qsub, no qdel).
C14_ArgumentThenConfig ==
    Resolved =>
       /\ lastResolve.arg # None => lastResolve.val = lastResolve.arg
       /\ (lastResolve.arg = None /\ ConfigHasKey) =>
             lastResolve.val = config[jcmd].v[lastResolve.key]
       /\ (lastResolve.arg = None /\ ~ConfigHasKey) =>
             /\ lastResolve.val = None
             /\ jpc = "failed"
             /\ jerr = [name |-> "ValueError", at |-> lastResolve.key]
             /\ strace = <<>> /\ prompted = "none"
             /\ <<TaskDir, "qsub.pid">> \notin written

C14_Witness ==
    /\ Resolved /\ jpc = "done" /\ HasOp("qsub")
    /\ lastResolve.key = "jobscript" /\ lastResolve.arg = PathV("job.sh")
    /\ ConfigHasKey /\ config[jcmd].v["jobscript"] # lastResolve.arg

C14_WitnessFallback ==
    /\ Resolved /\ lastResolve.arg = None /\ ConfigHasKey /\ jpc = "done"

C14_WitnessMissing ==
    /\ Resolved /\ lastResolve.arg = None /\ ~ConfigHasKey
    /\ lastResolve.key = "incar" /\ pidFile[TaskDir].exists

----------------------------------------------------------------------------
(* What qsub.pid holds after a submit *)

SubmitReturned == VaspJobs /\ jpc = "done" /\ HasOp("qsub")

\* the jobs submitted from the task directory before the call that just returned
EarlierJobsHere == { j \in 1..(Len(jobs) - 1) : jobs[j] = TaskDir }

\* C15: after Job.submit returns normally, qsub.pid in the task directory holds
\* the id of the job submitted by that call, so the id a later submit cancels is
\* always the most recently submitted job.
C15_PidHoldsSubmittedJob ==
    SubmitReturned =>
       /\ pidFile[TaskDir] = [exists |-> TRUE, text |-> <<Len(jobs)>>]
       /\ (strace[1].op = "qdel") =>
             (EarlierJobsHere # {} /\
              \A j \in EarlierJobsHere : j <= strace[1].id)

\* a submit that returned normally although qsub printed no id, in a directory
\* whose qsub.pid still names an older job
C15_StalePid ==
    /\ SubmitReturned /\ stdout = <<>>
    /\ pidFile[TaskDir].exists /\ pidFile[TaskDir].text # <<Len(jobs)>>

----------------------------------------------------------------------------
(* KPOINTS and jobscript.sh *)

KpointsResolved == VaspJobs /\ lastResolve.key = "kpoints" /\ lastResolve.val # None

\* a density value: a number in the config, a string of digits on the command line
IsDensity(val) == val.t = "num" \/ val = Str("0.03")

KpointsWritten == <<TaskDir, "KPOINTS">> \in written /\ jerr.at # "kpoints"

\* C16: --kpoints and the config `kpoints` key accept 'line' (line-mode KPOINTS),
\* a density value, a string on the command line and a number in the config
\* (Gamma-centred automatic mesh), and any other string (the path of an existing
\* KPOINTS file); every accepted value results in a KPOINTS file being written.
C16_EveryKindWritesKpoints ==
    KpointsResolved =>
       /\ lastResolve.val = Str("line") => (KpointsWritten /\ grid = <<>>)
       /\ IsDensity(lastResolve.val) => (KpointsWritten /\ grid # <<>>)
       /\ (lastResolve.val \notin {Str("line"), Str("0.03")}
           /\ lastResolve.val.t = "str" /\ lastResolve.val.v \in ExistingFiles) =>
             (KpointsWritten /\ grid = <<>>)

\* the density given on the command line is opened as a file
C16_DensityStringFails ==
    /\ KpointsResolved /\ lastResolve.arg = Str("0.03")
    /\ jpc = "failed" /\ jerr = [name |-> "FileNotFoundError", at |-> "kpoints"]
    /\ <<TaskDir, "KPOINTS">> \notin written

JobscriptWritten ==
    /\ VaspJobs /\ lastResolve.key = "jobscript" /\ lastResolve.val # None
    /\ <<TaskDir, "jobscript.sh">> \in written /\ jerr.at # "jobscript"

\* the resolved jobscript value names an existing file
NamesFile(val) == val.t \in {"path", "str"} /\ val.v \in ExistingFiles

\* C17: when the resolved jobscript value names a jobscript file (a Path from
\* --jobscript, or the path-like string the config holds for `jobscript`),
\* jobscript.sh receives the contents of that file, not the path text.
C17_JobscriptHasFileContents ==
    (JobscriptWritten /\ NamesFile(lastResolve.val)) =>
        scriptText = FileText(lastResolve.val.v)

\* the path-like string of the config ends up as the text of jobscript.sh
C17_PathTextWritten ==
    /\ JobscriptWritten /\ lastResolve.arg = None
    /\ lastResolve.val = Str("job.sh") /\ scriptText = "job.sh"

----------------------------------------------------------------------------
(* The working directory *)

Constructed == VaspJobs /\ runs > 0

ConfigHasWorkDir ==
    /\ "global" \in DOMAIN config /\ config["global"].t = "map"
    /\ "work_dir" \in DOMAIN config["global"].v

\* C18: Job.__init__ uses config['global']['work_dir'] as the working directory
\* when it is present and the current directory otherwise, also when the merged
\* config has no `global` section or no vasp_config.yaml exists at all: the
\* construction succeeds with the current directory.
C18_WorkDirOrCwd ==
    Constructed =>
       /\ jerr.at # "init"
       /\ work_dir = IF ConfigHasWorkDir THEN config["global"].v["work_dir"].v ELSE "."

\* no vasp_config.yaml anywhere: the construction raises AttributeError
C18_NoConfigFails ==
    /\ Constructed /\ loaded = <<NoFile, NoFile>>
    /\ jpc = "failed" /\ jerr = [name |-> "AttributeError", at |-> "init"]
    /\ written = {}

----------------------------------------------------------------------------
(* write_control *)

ControlReturned == prog = "control" /\ cpc # "start"

OutcarUsable == cargs.outcar # None /\ cargs.outcar.v \in CtlExisting

\* C19: write_control generates CONTROL from the POSCAR and the supercell alone:
\* without --is-born the CONTROL file is written; with --is-born and no --outcar,
\* or an OUTCAR that does not exist, it fails before any file is written.
C19_ControlWithoutBorn ==
    ControlReturned =>
       /\ (~cargs.is_born /\ cargs.poscar.v \in CtlExisting) =>
             (cpc = "done" /\ cerr = "" /\ "CONTROL" \in cwritten)
       /\ (cargs.is_born /\ ~OutcarUsable) => (cpc = "failed" /\ cwritten = {})

\* without --is-born the namelist cannot be built
C19_UnboundBorn ==
    /\ ControlReturned /\ ~cargs.is_born /\ cargs.poscar.v \in CtlExisting
    /\ cpc = "failed" /\ cerr = "UnboundLocalError" /\ cwritten = {}

----------------------------------------------------------------------------
(* The Gamma mesh *)

\* ceil(a / b) for positive b
CeilDiv(a, b) == (a + b - 1) \div b

GridWritten ==
    /\ VaspJobs /\ grid # <<>>
    /\ jcmd \in DOMAIN config /\ "kpoints" \in DOMAIN config[jcmd].v

\* C20: _calculate_grid_dimensions returns N_i = max(1, ceil(|b_i| / kpr)) for
\* each direction, as its docstring states; every dimension is an integer >= 1.
C20_GridIsCeilOfRatio ==
    GridWritten =>
       \A i \in 1..3 :
          /\ grid[i] \in Nat /\ grid[i] >= 1
          /\ grid[i] = Max(1, CeilDiv(Bnorm(poscar_path.v)[i], config[jcmd].v["kpoints"].v))

\* the mesh the code computes for |b| = (1.57, 1.05, 0.10) 1/A and kpr = 0.03
C20_FloorOverTwoPi ==
    /\ GridWritten /\ config[jcmd].v["kpoints"] = Num(3) /\ grid = <<8, 5, 1>>
    /\ <<TaskDir, "KPOINTS">> \in written

====
